---- MODULE Spec2Model ----
(***************************************************************************)
(* Model of src/src/main.c (Clouds with OpenGL and GLFW).                  *)
(*                                                                         *)
(* The program is one thread running main(); the state is main's locals,   *)
(* the state of the libraries it drives (GLFW, GLEW, the GL objects it     *)
(* creates), the standard error stream, and the list of library calls made *)
(* so far, in order.  Each action is one statement (or one commented       *)
(* group of statements) of main.  The outcomes of library calls that can   *)
(* fail (glfwInit, glfwCreateWindow, glewInit, glCompileShader,            *)
(* glLinkProgram) and the window-close request delivered by the event pump *)
(* are chosen by the environment.                                          *)
(*                                                                         *)
(* cloud_shift is a C float.  It is represented by the integer             *)
(* cloud_shift * 2^29: 0.02f is 10737418 * 2^-29 exactly, and every value  *)
(* the accumulation reaches is a multiple of 2^-29.  F32Add is IEEE-754    *)
(* binary32 addition (24-bit significand, round to nearest, ties to even). *)
(***************************************************************************)
EXTENDS Integers, Sequences, FiniteSets

VARIABLES
    pc,               \* position in main
    ret,              \* main's return value, meaningful when pc = "exited"
    glfw,             \* GLFW library: "uninit" | "failed" | "init" | "terminated"
    window,           \* GLFWwindow* window: "none" | "failed" | "open" | "destroyed"
    glew,             \* GLEW: "uninit" | "failed" | "ok"
    gl,               \* GL objects: name -> "none" | "live" | "flagged" | "deleted"
    compile_status,   \* GL_COMPILE_STATUS of each stage object: "none" | "ok" | "failed"
    attached,         \* shader objects attached to shader_program
    vertex_shader,    \* GLuint vertex_shader (Null is handle 0)
    fragment_shader,  \* GLuint fragment_shader
    link_success,     \* GLint success after glGetProgramiv(GL_LINK_STATUS)
    cloud_shift_loc,  \* GLint cloud_shift_loc (-1 when the uniform is not found)
    cloud_shift,      \* float cloud_shift, in units of 2^-29
    shouldClose,      \* the window's close flag, read by glfwWindowShouldClose
    frames,           \* completed iterations of the render loop
    stderr,           \* messages written to standard error
    calls             \* library calls made so far, in order

vars == <<pc, ret, glfw, window, glew, gl, compile_status, attached,
          vertex_shader, fragment_shader, link_success, cloud_shift_loc,
          cloud_shift, shouldClose, frames, stderr, calls>>

\* Iterations of the render loop the model follows.
MaxFrames == 6

\* 0.02f (0x3CA3D70A) in units of 2^-29.
STEP == 10737418

\* Handle 0.
Null == "null"

VS == "vertex_stage"
FS == "fragment_stage"
PROG == "shader_program"
VAO == "VAO"
VBO == "VBO"
Stages == {VS, FS}
Objects == {VS, FS, PROG, VAO, VBO}

Call(op, h, v) == [op |-> op, h |-> h, v |-> v]

----------------------------------------------------------------------------
(* binary32 arithmetic on non-negative multiples of 2^-29 *)

RECURSIVE Ulp(_)
Ulp(v) == IF v < 2^24 THEN 1 ELSE 2 * Ulp(v \div 2)

F32Round(v) ==
    LET u == Ulp(v)
        q == v \div u
        r == v % u
    IN  IF 2 * r > u \/ (2 * r = u /\ q % 2 = 1) THEN (q + 1) * u ELSE q * u

F32Add(a, b) == F32Round(a + b)

----------------------------------------------------------------------------
(* the call log *)

Ops == [i \in DOMAIN calls |-> calls[i].op]
Count(op) == Cardinality({i \in DOMAIN calls : calls[i].op = op})
Called(op) == \E i \in DOMAIN calls : calls[i].op = op
First(op) == CHOOSE i \in DOMAIN calls :
                 calls[i].op = op /\ \A j \in 1..(i - 1) : calls[j].op # op
Log(cs) == calls' = calls \o cs

----------------------------------------------------------------------------
Init ==
    /\ pc = "glfwInit"
    /\ ret = 0
    /\ glfw = "uninit"
    /\ window = "none"
    /\ glew = "uninit"
    /\ gl = [o \in Objects |-> "none"]
    /\ compile_status = [s \in Stages |-> "none"]
    /\ attached = {}
    /\ vertex_shader = Null
    /\ fragment_shader = Null
    /\ link_success = FALSE
    /\ cloud_shift_loc = -1
    /\ cloud_shift = 0
    /\ shouldClose = FALSE
    /\ frames = 0
    /\ stderr = <<>>
    /\ calls = <<>>

\* return v; from main
Return(v) == pc' = "exited" /\ ret' = v

\* if (!glfwInit()) return -1;
GlfwInit ==
    /\ pc = "glfwInit"
    /\ Log(<<Call("glfwInit", Null, 0)>>)
    /\ \E ok \in BOOLEAN :
          IF ok
            THEN glfw' = "init" /\ pc' = "createWindow" /\ ret' = ret
            ELSE glfw' = "failed" /\ Return(-1)
    /\ UNCHANGED <<window, glew, gl, compile_status, attached, vertex_shader,
                   fragment_shader, link_success, cloud_shift_loc, cloud_shift,
                   shouldClose, frames, stderr>>

\* window = glfwCreateWindow(...); if (!window) { glfwTerminate(); return -1; }
CreateWindow ==
    /\ pc = "createWindow"
    /\ \E ok \in BOOLEAN :
          IF ok
            THEN /\ window' = "open"
                 /\ Log(<<Call("glfwCreateWindow", Null, 0)>>)
                 /\ pc' = "glewInit" /\ ret' = ret
                 /\ glfw' = glfw
            ELSE /\ window' = "failed"
                 /\ Log(<<Call("glfwCreateWindow", Null, 0),
                          Call("glfwTerminate", Null, 0)>>)
                 /\ glfw' = "terminated"
                 /\ Return(-1)
    /\ UNCHANGED <<glew, gl, compile_status, attached, vertex_shader,
                   fragment_shader, link_success, cloud_shift_loc, cloud_shift,
                   shouldClose, frames, stderr>>

\* GlewInit without its early return: the failure is logged and start-up goes on
GlewInit_Continue ==
    /\ pc = "glewInit"
    /\ Log(<<Call("glfwMakeContextCurrent", Null, 0), Call("glewInit", Null, 0)>>)
    /\ \E ok \in BOOLEAN :
          /\ glew' = (IF ok THEN "ok" ELSE "failed")
          /\ stderr' = (IF ok THEN stderr
                        ELSE Append(stderr, "Failed to initialize GLEW"))
    /\ pc' = "compile_vs"
    /\ UNCHANGED <<ret, glfw, window, gl, compile_status, attached,
                   vertex_shader, fragment_shader, link_success,
                   cloud_shift_loc, cloud_shift, shouldClose, frames>>

\* glfwMakeContextCurrent(window);
\* if (glewInit() != GLEW_OK) { fprintf(stderr, ...); return -1; }
GlewInit ==
    /\ pc = "glewInit"
    /\ Log(<<Call("glfwMakeContextCurrent", Null, 0), Call("glewInit", Null, 0)>>)
    /\ \E ok \in BOOLEAN :
          IF ok
            THEN glew' = "ok" /\ pc' = "compile_vs" /\ ret' = ret /\ stderr' = stderr
            ELSE /\ glew' = "failed"
                 /\ stderr' = Append(stderr, "Failed to initialize GLEW")
                 /\ Return(-1)
    /\ UNCHANGED <<glfw, window, gl, compile_status, attached, vertex_shader,
                   fragment_shader, link_success, cloud_shift_loc, cloud_shift,
                   shouldClose, frames>>

----------------------------------------------------------------------------
(* compile_shader(source, shader_type) *)

\* compile_shader returning the stage object whatever its compile status
compile_shader_return_Handle(shader, success) == shader

\* the value compile_shader returns: 0 when GL_COMPILE_STATUS is false
compile_shader_return(shader, success) == IF success THEN shader ELSE Null

\* what compile_shader writes to standard error
compile_shader_stderr(success) ==
    IF success THEN <<>> ELSE <<"Error compiling shader">>

\* the body of compile_shader for the stage object `shader`; no glDeleteShader
\* is issued on either path
compile_shader(shader, success) ==
    /\ gl' = [gl EXCEPT ![shader] = "live"]
    /\ compile_status' =
          [compile_status EXCEPT ![shader] = IF success THEN "ok" ELSE "failed"]
    /\ stderr' = stderr \o compile_shader_stderr(success)
    /\ Log(<<Call("glCreateShader", shader, 0),
             Call("glShaderSource", shader, 0),
             Call("glCompileShader", shader, 0),
             Call("glGetShaderiv", shader, 0)>>
           \o (IF success THEN <<>>
               ELSE <<Call("glGetShaderInfoLog", shader, 0)>>))

\* GLuint vertex_shader = compile_shader(vertex_shader_source, GL_VERTEX_SHADER);
CompileVertex ==
    /\ pc = "compile_vs"
    /\ \E success \in BOOLEAN :
          /\ compile_shader(VS, success)
          /\ vertex_shader' = compile_shader_return(VS, success)
    /\ pc' = "compile_fs"
    /\ UNCHANGED <<ret, glfw, window, glew, attached, fragment_shader,
                   link_success, cloud_shift_loc, cloud_shift, shouldClose,
                   frames>>

\* GLuint fragment_shader = compile_shader(fragment_shader_source, GL_FRAGMENT_SHADER);
CompileFragment ==
    /\ pc = "compile_fs"
    /\ \E success \in BOOLEAN :
          /\ compile_shader(FS, success)
          /\ fragment_shader' = compile_shader_return(FS, success)
    /\ pc' = "link"
    /\ UNCHANGED <<ret, glfw, window, glew, attached, vertex_shader,
                   link_success, cloud_shift_loc, cloud_shift, shouldClose,
                   frames>>

----------------------------------------------------------------------------
(* program linking *)

\* glAttachShader(program, h): handle 0 is rejected (GL_INVALID_VALUE)
AttachShader(att, h) == IF h = Null THEN att ELSE att \cup {h}

\* what main writes to standard error after reading GL_LINK_STATUS
link_stderr(success) ==
    IF success THEN <<>> ELSE <<"Error linking shader program">>

\* shader_program = glCreateProgram(); glAttachShader x2; glLinkProgram;
\* glGetProgramiv(GL_LINK_STATUS); if (!success) { log }  -- no return
LinkProgram ==
    /\ pc = "link"
    /\ gl' = [gl EXCEPT ![PROG] = "live"]
    /\ attached' = AttachShader(AttachShader(attached, vertex_shader),
                                fragment_shader)
    /\ \E success \in BOOLEAN :
          /\ link_success' = success
          /\ stderr' = stderr \o link_stderr(success)
          /\ Log(<<Call("glCreateProgram", PROG, 0),
                   Call("glAttachShader", vertex_shader, 0),
                   Call("glAttachShader", fragment_shader, 0),
                   Call("glLinkProgram", PROG, 0),
                   Call("glGetProgramiv", PROG, 0)>>
                 \o (IF success THEN <<>>
                     ELSE <<Call("glGetProgramInfoLog", PROG, 0)>>))
    /\ pc' = "get_loc"
    /\ UNCHANGED <<ret, glfw, window, glew, compile_status, vertex_shader,
                   fragment_shader, cloud_shift_loc, cloud_shift, shouldClose,
                   frames>>

\* cloud_shift_loc = glGetUniformLocation(shader_program, "cloud_shift");
\* -1 unless the program linked with the fragment stage that declares it
GetUniformLocation ==
    /\ pc = "get_loc"
    /\ cloud_shift_loc' = IF link_success /\ FS \in attached THEN 0 ELSE -1
    /\ Log(<<Call("glGetUniformLocation", PROG, 0)>>)
    /\ pc' = "delete_shaders"
    /\ UNCHANGED <<ret, glfw, window, glew, gl, compile_status, attached,
                   vertex_shader, fragment_shader, link_success, cloud_shift,
                   shouldClose, frames, stderr>>

\* glDeleteShader(h): handle 0 is silently ignored; an attached shader is
\* flagged for deletion and lives until it is detached
DeleteShader(g, h) ==
    IF h = Null THEN g
    ELSE [g EXCEPT ![h] = IF h \in attached THEN "flagged" ELSE "deleted"]

\* glDeleteShader(vertex_shader); glDeleteShader(fragment_shader);
DeleteShaders ==
    /\ pc = "delete_shaders"
    /\ gl' = DeleteShader(DeleteShader(gl, vertex_shader), fragment_shader)
    /\ Log(<<Call("glDeleteShader", vertex_shader, 0),
             Call("glDeleteShader", fragment_shader, 0)>>)
    /\ pc' = "setup_geometry"
    /\ UNCHANGED <<ret, glfw, window, glew, compile_status, attached,
                   vertex_shader, fragment_shader, link_success,
                   cloud_shift_loc, cloud_shift, shouldClose, frames, stderr>>

\* glGenVertexArrays .. glBindVertexArray(0): the quad's VAO and VBO
SetupGeometry ==
    /\ pc = "setup_geometry"
    /\ gl' = [gl EXCEPT ![VAO] = "live", ![VBO] = "live"]
    /\ Log(<<Call("glGenVertexArrays", VAO, 1),
             Call("glGenBuffers", VBO, 1),
             Call("glBindVertexArray", VAO, 0),
             Call("glBindBuffer", VBO, 0),
             Call("glBufferData", VBO, 24),
             Call("glVertexAttribPointer", Null, 0),
             Call("glEnableVertexAttribArray", Null, 0),
             Call("glVertexAttribPointer", Null, 1),
             Call("glEnableVertexAttribArray", Null, 1),
             Call("glBindBuffer", Null, 0),
             Call("glBindVertexArray", Null, 0)>>)
    /\ pc' = "init_shift"
    /\ UNCHANGED <<ret, glfw, window, glew, compile_status, attached,
                   vertex_shader, fragment_shader, link_success,
                   cloud_shift_loc, cloud_shift, shouldClose, frames, stderr>>

\* float cloud_shift = 0.0f;
InitCloudShift ==
    /\ pc = "init_shift"
    /\ cloud_shift' = 0
    /\ pc' = "loop"
    /\ UNCHANGED <<ret, glfw, window, glew, gl, compile_status, attached,
                   vertex_shader, fragment_shader, link_success,
                   cloud_shift_loc, shouldClose, frames, stderr, calls>>

----------------------------------------------------------------------------
(* the render loop *)

LoopBody == {"clear", "use", "shift", "bind", "draw", "unbind", "swap", "poll"}
Running == pc = "loop" \/ pc \in LoopBody
Cleanup == {"del_vao", "del_vbo", "del_prog", "terminate", "return"}

Step(from, to, cs) ==
    /\ pc = from
    /\ pc' = to
    /\ Log(cs)
    /\ UNCHANGED <<ret, glfw, window, glew, gl, compile_status, attached,
                   vertex_shader, fragment_shader, link_success,
                   cloud_shift_loc, cloud_shift, shouldClose, frames, stderr>>

\* the loop test with its result ignored: the loop goes on after a close request
LoopHead_IgnoresClose ==
    /\ pc = "loop"
    /\ frames < MaxFrames
    /\ pc' = "clear"
    /\ Log(<<Call("glfwWindowShouldClose", Null, 0)>>)
    /\ UNCHANGED <<ret, glfw, window, glew, gl, compile_status, attached,
                   vertex_shader, fragment_shader, link_success,
                   cloud_shift_loc, cloud_shift, shouldClose, frames, stderr>>

\* while (!glfwWindowShouldClose(window))
LoopHead ==
    /\ pc = "loop"
    /\ shouldClose \/ frames < MaxFrames
    /\ pc' = IF shouldClose THEN "del_vao" ELSE "clear"
    /\ Log(<<Call("glfwWindowShouldClose", Null, 0)>>)
    /\ UNCHANGED <<ret, glfw, window, glew, gl, compile_status, attached,
                   vertex_shader, fragment_shader, link_success,
                   cloud_shift_loc, cloud_shift, shouldClose, frames, stderr>>

\* glClear(GL_COLOR_BUFFER_BIT);
Clear == Step("clear", "use", <<Call("glClear", Null, 0)>>)

\* glUseProgram(shader_program);
UseProgram == Step("use", "shift", <<Call("glUseProgram", PROG, 0)>>)

\* the update with = for +=: the scalar is set to the step every frame
UpdateCloudShift_Assign ==
    /\ pc = "shift"
    /\ cloud_shift' = STEP
    /\ Log(<<Call("glUniform1f",
                  IF cloud_shift_loc = -1 THEN Null ELSE "cloud_shift",
                  cloud_shift')>>)
    /\ pc' = "bind"
    /\ UNCHANGED <<ret, glfw, window, glew, gl, compile_status, attached,
                   vertex_shader, fragment_shader, link_success,
                   cloud_shift_loc, shouldClose, frames, stderr>>

\* the update with its two statements swapped: the scalar is uploaded, then advanced
UpdateCloudShift_UploadFirst ==
    /\ pc = "shift"
    /\ cloud_shift' = F32Add(cloud_shift, STEP)
    /\ Log(<<Call("glUniform1f",
                  IF cloud_shift_loc = -1 THEN Null ELSE "cloud_shift",
                  cloud_shift)>>)
    /\ pc' = "bind"
    /\ UNCHANGED <<ret, glfw, window, glew, gl, compile_status, attached,
                   vertex_shader, fragment_shader, link_success,
                   cloud_shift_loc, shouldClose, frames, stderr>>

\* cloud_shift += 0.02f; glUniform1f(cloud_shift_loc, cloud_shift);
UpdateCloudShift ==
    /\ pc = "shift"
    /\ cloud_shift' = F32Add(cloud_shift, STEP)
    /\ Log(<<Call("glUniform1f",
                  IF cloud_shift_loc = -1 THEN Null ELSE "cloud_shift",
                  cloud_shift')>>)
    /\ pc' = "bind"
    /\ UNCHANGED <<ret, glfw, window, glew, gl, compile_status, attached,
                   vertex_shader, fragment_shader, link_success,
                   cloud_shift_loc, shouldClose, frames, stderr>>

\* glBindVertexArray(VAO);
BindGeometry == Step("bind", "draw", <<Call("glBindVertexArray", VAO, 0)>>)

\* glDrawArrays(GL_TRIANGLES, 0, 6);
Draw == Step("draw", "unbind", <<Call("glDrawArrays", "GL_TRIANGLES", 6)>>)

\* glBindVertexArray(0);
UnbindGeometry == Step("unbind", "swap", <<Call("glBindVertexArray", Null, 0)>>)

\* glfwSwapBuffers(window);
SwapBuffers == Step("swap", "poll", <<Call("glfwSwapBuffers", Null, 0)>>)

\* glfwPollEvents(); the event pump delivers a pending close request, if any;
\* the close flag, once set, is never cleared by the program
PollEvents ==
    /\ pc = "poll"
    /\ \E close_request \in BOOLEAN : shouldClose' = (shouldClose \/ close_request)
    /\ frames' = frames + 1
    /\ Log(<<Call("glfwPollEvents", Null, 0)>>)
    /\ pc' = "loop"
    /\ UNCHANGED <<ret, glfw, window, glew, gl, compile_status, attached,
                   vertex_shader, fragment_shader, link_success,
                   cloud_shift_loc, cloud_shift, stderr>>

----------------------------------------------------------------------------
(* clean-up *)

\* glDeleteVertexArrays(1, &VAO);
DeleteVertexArrays ==
    /\ pc = "del_vao"
    /\ gl' = [gl EXCEPT ![VAO] = "deleted"]
    /\ Log(<<Call("glDeleteVertexArrays", VAO, 1)>>)
    /\ pc' = "del_vbo"
    /\ UNCHANGED <<ret, glfw, window, glew, compile_status, attached,
                   vertex_shader, fragment_shader, link_success,
                   cloud_shift_loc, cloud_shift, shouldClose, frames, stderr>>

\* glDeleteBuffers(1, &VBO);
DeleteBuffers ==
    /\ pc = "del_vbo"
    /\ gl' = [gl EXCEPT ![VBO] = "deleted"]
    /\ Log(<<Call("glDeleteBuffers", VBO, 1)>>)
    /\ pc' = "del_prog"
    /\ UNCHANGED <<ret, glfw, window, glew, compile_status, attached,
                   vertex_shader, fragment_shader, link_success,
                   cloud_shift_loc, cloud_shift, shouldClose, frames, stderr>>

\* clean-up that forgets the program: nothing is deleted at this step
DeleteProgram_Skip ==
    /\ pc = "del_prog"
    /\ pc' = "terminate"
    /\ UNCHANGED <<ret, glfw, window, glew, gl, compile_status, attached,
                   vertex_shader, fragment_shader, link_success,
                   cloud_shift_loc, cloud_shift, shouldClose, frames, stderr,
                   calls>>

\* glDeleteProgram(shader_program); its shaders are detached, and those
\* flagged for deletion are deleted with it
DeleteProgram ==
    /\ pc = "del_prog"
    /\ gl' = [o \in Objects |->
                IF o = PROG THEN "deleted"
                ELSE IF o \in attached /\ gl[o] = "flagged" THEN "deleted"
                ELSE gl[o]]
    /\ attached' = {}
    /\ Log(<<Call("glDeleteProgram", PROG, 0)>>)
    /\ pc' = "terminate"
    /\ UNCHANGED <<ret, glfw, window, glew, compile_status, vertex_shader,
                   fragment_shader, link_success, cloud_shift_loc, cloud_shift,
                   shouldClose, frames, stderr>>

\* glfwTerminate();  (gl keeps recording what the program itself released)
Terminate ==
    /\ pc = "terminate"
    /\ glfw' = "terminated"
    /\ window' = "destroyed"
    /\ Log(<<Call("glfwTerminate", Null, 0)>>)
    /\ pc' = "return"
    /\ UNCHANGED <<ret, glew, gl, compile_status, attached, vertex_shader,
                   fragment_shader, link_success, cloud_shift_loc, cloud_shift,
                   shouldClose, frames, stderr>>

\* return 0;
ReturnSuccess ==
    /\ pc = "return"
    /\ Return(0)
    /\ UNCHANGED <<glfw, window, glew, gl, compile_status, attached,
                   vertex_shader, fragment_shader, link_success,
                   cloud_shift_loc, cloud_shift, shouldClose, frames, stderr,
                   calls>>

\* the status the process exits with: main's int, truncated to 8 bits
ExitStatus == ret % 256

----------------------------------------------------------------------------
Next ==
    \/ GlfwInit
    \/ CreateWindow
    \/ GlewInit
    \/ CompileVertex
    \/ CompileFragment
    \/ LinkProgram
    \/ GetUniformLocation
    \/ DeleteShaders
    \/ SetupGeometry
    \/ InitCloudShift
    \/ LoopHead
    \/ Clear
    \/ UseProgram
    \/ UpdateCloudShift
    \/ BindGeometry
    \/ Draw
    \/ UnbindGeometry
    \/ SwapBuffers
    \/ PollEvents
    \/ DeleteVertexArrays
    \/ DeleteBuffers
    \/ DeleteProgram
    \/ Terminate
    \/ ReturnSuccess

Spec == Init /\ [][Next]_vars

\* main is a single thread that always executes its next statement
FairSpec == Spec /\ WF_vars(Next)

----------------------------------------------------------------------------
(* vocabulary of the properties *)

Startup == {"glfwInit", "createWindow", "glewInit", "compile_vs", "compile_fs",
            "link", "get_loc", "delete_shaders", "setup_geometry", "init_shift"}

\* main returned 0: the loop ended on an observed close request
ClosedNormally == pc = "exited" /\ ret = 0

InitFailed == glfw = "failed" \/ window = "failed" \/ glew = "failed"

CompileFailed(s) == compile_status[s] = "failed"
LinkFailed == Called("glLinkProgram") /\ ~link_success
ShaderError == CompileFailed(VS) \/ CompileFailed(FS) \/ LinkFailed

HandleOf(s) == IF s = VS THEN vertex_shader ELSE fragment_shader

Range(f) == {f[i] : i \in DOMAIN f}
Last(op) == CHOOSE i \in DOMAIN calls :
                calls[i].op = op /\ \A j \in (i + 1)..Len(calls) : calls[j].op # op

\* the value of cloud_shift after n single-precision additions of the step
RECURSIVE FAccum(_)
FAccum(n) == IF n = 0 THEN 0 ELSE F32Add(FAccum(n - 1), STEP)

\* additions of the step performed so far
Advances == frames + (IF pc \in {"bind", "draw", "unbind", "swap", "poll"} THEN 1 ELSE 0)

\* n times the step, exactly or rounded once to single precision
IsMultipleOfStep(v, n) == v = n * STEP \/ v = F32Round(n * STEP)

\* the calls of one iteration, from the loop test to the event pump
LoopOps == <<"glfwWindowShouldClose", "glClear", "glUseProgram", "glUniform1f",
             "glBindVertexArray", "glDrawArrays", "glBindVertexArray",
             "glfwSwapBuffers", "glfwPollEvents">>
LoopStart == First("glfwWindowShouldClose")
CleanupOps == {"glDeleteVertexArrays", "glDeleteBuffers", "glDeleteProgram",
               "glfwTerminate"}
\* the number of the frame in which call i of the loop was made
FrameOf(i) == ((i - LoopStart) \div Len(LoopOps)) + 1
RenderCalls == Count("glClear") + Count("glUniform1f") + Count("glDrawArrays")

----------------------------------------------------------------------------
\* C1 (as claimed): when main returns after an observed close request, the
\* vertex array, the vertex buffer and the program have been released, GLFW
\* has been terminated, and no GL object created at start-up is still live.
C1_CloseReleasesEveryHandle ==
    ClosedNormally =>
        /\ gl[VAO] = "deleted" /\ gl[VBO] = "deleted" /\ gl[PROG] = "deleted"
        /\ glfw = "terminated"
        /\ \A o \in Objects : gl[o] \in {"none", "deleted"}

----------------------------------------------------------------------------
\* C2 (as claimed): after N completed iterations cloud_shift is exactly N
\* times the step (read as the exact product or as the product rounded once).
C2_ExactMultipleOfStep ==
    pc = "loop" => IsMultipleOfStep(cloud_shift, frames)

\* C2 (amended): after N completed iterations cloud_shift is the result of N
\* successive single-precision additions of the step to 0, each iteration
\* adds the step exactly once, and no step ever decreases or resets it.
C2_FloatAccumulation ==
    /\ [](pc \notin Startup => cloud_shift = FAccum(Advances))
    /\ [][cloud_shift' >= cloud_shift]_vars
    /\ [][cloud_shift' # cloud_shift => pc = "shift" /\ pc' = "bind"]_vars

\* C2 witness: N iterations completed where the accumulated value differs
\* from N times the step.
C2_Witness ==
    /\ pc = "loop" /\ frames >= 5
    /\ cloud_shift = FAccum(frames)
    /\ cloud_shift # frames * STEP

----------------------------------------------------------------------------
\* C3 (as claimed): every initialization failure writes a message to standard
\* error, exits at once with a non-zero status, compiles no shader and draws
\* no frame.
C3_InitFailureLogged ==
    InitFailed =>
        /\ pc = "exited" /\ ExitStatus # 0
        /\ Len(stderr) > 0
        /\ ~Called("glCreateShader") /\ ~Called("glDrawArrays")

\* C3 (amended): every initialization failure exits at once with a non-zero
\* status, compiles no shader and draws no frame; a message is written to
\* standard error for the extension-loader failure only.
C3_InitFailureFatal ==
    InitFailed =>
        /\ pc = "exited" /\ ExitStatus # 0
        /\ ~Called("glCreateShader") /\ ~Called("glDrawArrays")
        /\ ~Called("glfwWindowShouldClose")
        /\ stderr = (IF glew = "failed" THEN <<"Failed to initialize GLEW">> ELSE <<>>)
        /\ Ops[Len(calls)] = (IF glfw = "failed" THEN "glfwInit"
                              ELSE IF window = "failed" THEN "glfwTerminate"
                              ELSE "glewInit")

\* C3 witness: an initialization failure after which main has returned
\* without writing anything to standard error.
C3_Witness ==
    InitFailed /\ pc = "exited" /\ stderr = <<>> /\ window = "failed"

----------------------------------------------------------------------------
\* C4: a compile or link failure is logged to standard error, compile_shader
\* returns handle 0 for a failed stage, start-up still reaches the render
\* loop, and the run exits with status 0 after an observed close request.
C4_ShaderErrorsNotFatal ==
    /\ [](\A s \in Stages : CompileFailed(s) =>
              HandleOf(s) = Null /\ "Error compiling shader" \in Range(stderr))
    /\ [](Len(SelectSeq(stderr, LAMBDA m : m = "Error compiling shader"))
            = Cardinality({s \in Stages : CompileFailed(s)}))
    /\ [](LinkFailed <=> "Error linking shader program" \in Range(stderr))
    /\ [](ShaderError /\ pc = "exited" =>
              ExitStatus = 0 /\ shouldClose /\ frames >= 1)
    /\ ((ShaderError /\ pc \in Startup) ~> pc = "loop")

\* C4 witness: a run with a failed vertex stage and a failed link that drew
\* frames and returned 0.
C4_Witness ==
    /\ CompileFailed(VS) /\ LinkFailed
    /\ ClosedNormally /\ frames >= 1 /\ Called("glDrawArrays")

----------------------------------------------------------------------------
\* C5 (as claimed): the render loop executes only if initialization, both
\* compilations and the link all succeeded.
C5_RunningOnlyIfAllSucceeded ==
    Running =>
        /\ ~InitFailed
        /\ compile_status[VS] = "ok" /\ compile_status[FS] = "ok"
        /\ link_success

----------------------------------------------------------------------------
\* C6 (as claimed): on return after a close request the vertex buffer, the
\* vertex array, the program and GLFW were released in that order, once each.
C6_BufferThenVertexArray ==
    ClosedNormally =>
        /\ \A op \in CleanupOps : Count(op) = 1
        /\ First("glDeleteBuffers") < First("glDeleteVertexArrays")
        /\ First("glDeleteVertexArrays") < First("glDeleteProgram")
        /\ First("glDeleteProgram") < First("glfwTerminate")

\* C6 (amended): the order is the vertex array, then the vertex buffer, then
\* the program, then GLFW; each is released exactly once, none before the
\* one it follows, and main returns 0 only after all four.
C6_VertexArrayThenBuffer ==
    /\ \A op \in CleanupOps : Count(op) <= 1
    /\ Called("glDeleteBuffers") =>
          Called("glDeleteVertexArrays")
          /\ First("glDeleteVertexArrays") < First("glDeleteBuffers")
    /\ Called("glDeleteProgram") =>
          Called("glDeleteBuffers")
          /\ First("glDeleteBuffers") < First("glDeleteProgram")
    /\ (Called("glfwTerminate") /\ window # "failed") =>
          Called("glDeleteProgram")
          /\ First("glDeleteProgram") < First("glfwTerminate")
    /\ ClosedNormally =>
          /\ \A op \in CleanupOps : Count(op) = 1
          /\ Ops[Len(calls)] = "glfwTerminate"

\* C6 witness: main returned 0 with the vertex array deleted before the buffer.
C6_Witness ==
    /\ ClosedNormally
    /\ First("glDeleteVertexArrays") < First("glDeleteBuffers")
    /\ First("glDeleteProgram") < First("glfwTerminate")

----------------------------------------------------------------------------
\* C7 (as claimed): every stage object compile_shader created, compiled or
\* not, has been deleted (or flagged for deletion) before the loop starts, so
\* none is live while Running, during clean-up or at exit.
C7_StagesFreedBeforeLoop ==
    (Running \/ pc \in Cleanup \/ ClosedNormally) =>
        \A s \in Stages : gl[s] \in {"flagged", "deleted"}

----------------------------------------------------------------------------
\* the calls of the loop follow LoopOps, over and over; the geometry bound
\* before the draw is the quad's, and the draw is 6 vertices as triangles
FrameOrder ==
    Called("glfwWindowShouldClose") =>
        /\ \A i \in LoopStart..Len(calls) :
              \/ calls[i].op = LoopOps[((i - LoopStart) % Len(LoopOps)) + 1]
              \/ /\ calls[i].op \in CleanupOps
                 /\ i > Last("glfwWindowShouldClose")
                 /\ Last("glfwWindowShouldClose") = LoopStart + Len(LoopOps) * frames
        /\ \A i \in DOMAIN calls :
              calls[i].op = "glDrawArrays" =>
                  /\ calls[i].h = "GL_TRIANGLES" /\ calls[i].v = 6
                  /\ calls[i - 1] = Call("glBindVertexArray", VAO, 0)

\* C8 (as claimed): each iteration makes its calls in the fixed order, once
\* each; the value uploaded in frame k is k times the step, and never 0.
C8_UploadsKTimesStep ==
    /\ FrameOrder
    /\ \A i \in DOMAIN calls :
          calls[i].op = "glUniform1f" =>
              IsMultipleOfStep(calls[i].v, FrameOf(i)) /\ calls[i].v # 0

\* C8 (amended): each iteration makes its calls in the fixed order, once
\* each; the scalar is advanced before it is uploaded, so the value uploaded
\* in frame k is the result of k single-precision additions of the step, and
\* never 0.
C8_UploadsAccumulatedShift ==
    /\ FrameOrder
    /\ \A i \in DOMAIN calls :
          calls[i].op = "glUniform1f" =>
              calls[i].v = FAccum(FrameOf(i)) /\ calls[i].v # 0

\* C8 witness: six whole frames were drawn and the sixth upload is not six
\* times the step.
C8_Witness ==
    /\ Count("glfwPollEvents") >= 6
    /\ \E i \in DOMAIN calls :
          /\ calls[i].op = "glUniform1f" /\ FrameOf(i) = 6
          /\ ~IsMultipleOfStep(calls[i].v, 6)

----------------------------------------------------------------------------
\* C9: the close flag is tested once per frame at the loop head and is the
\* only way out of Running: a started frame runs to its event pump, nothing
\* is cleared, uploaded or drawn once the flag is set and the frame is over,
\* without the flag the program stays in Running, and once the flag is set
\* main eventually returns 0.
C9_CloseIsTheOnlyExit ==
    /\ [][(pc \in LoopBody /\ pc # "poll") => pc' \in LoopBody]_vars
    /\ [][pc = "poll" => pc' = "loop"]_vars
    /\ [][(Running /\ ~Running') =>
             (pc = "loop" /\ shouldClose /\ pc' = "del_vao")]_vars
    /\ [][(Running /\ ~shouldClose) => Running']_vars
    /\ [][(shouldClose /\ pc \notin LoopBody) => RenderCalls' = RenderCalls]_vars
    /\ [](Count("glfwWindowShouldClose")
            = IF pc = "loop" \/ pc \in Startup \/ InitFailed
                THEN frames ELSE frames + 1)
    /\ [][shouldClose => shouldClose']_vars
    /\ (shouldClose ~> ClosedNormally)

\* C9 witness: the flag was raised after several frames and main returned 0.
C9_Witness ==
    /\ ClosedNormally /\ shouldClose /\ frames >= 2
    /\ RenderCalls = 3 * frames

----------------------------------------------------------------------------
\* C10 (as claimed): whenever main returns after glfwInit succeeded, GLFW has
\* been terminated.
C10_TerminatedOnEveryReturn ==
    (pc = "exited" /\ glfw # "failed") => glfw = "terminated"

====
